---- MODULE Spec2Model ----
(***************************************************************************)
(* Model of inject-define-options (src/inject.ts): the route extractor     *)
(* and the component patcher of injectDefineOptions.                       *)
(*                                                                         *)
(* Text (file contents, route names, import paths) is a sequence of        *)
(* lexemes.  Every lexeme that the program's patterns look inside of is a  *)
(* lexeme of its own ("<script", ">", "</script", "defineOptions", "(",    *)
(* "{", "}", ")", ";", "$", "&", the two quotes, "/", white space), so that  *)
(* the regular expressions, String.replace, trim, split, startsWith and    *)
(* endsWith are computed on the text as the JavaScript runtime computes    *)
(* them on characters.                                                     *)
(***************************************************************************)
EXTENDS Integers, Sequences, FiniteSets, TLC

VARIABLES
    pc,             \* where injectDefineOptions is: start, extract, patch, done, crashed
    routeFile,      \* the route file's default export and its array elements
    viewsFs,        \* the views directory: path below viewsDir -> entry
    excludeDirs,    \* config.excludeDirs
    routeArray,     \* const routeObjects
    matchedRoutes,  \* const matchedRoutes
    idx,            \* the position of the running loop
    console,        \* the messages written to the console, in order
    prevFs,         \* history: viewsFs before the last turn of forEach
    initFs          \* history: viewsFs when the run began

vars == <<pc, routeFile, viewsFs, excludeDirs, routeArray, matchedRoutes,
          idx, console, prevFs, initFs>>

-----------------------------------------------------------------------------
(* Lexemes *)

OPENTAG == "<script"
CLOSETAG == "</script"
GT == ">"
MARKER == "defineOptions"
NL == "\n"
SP == " "
DQ == "\""
IMP == "import {ref} from 'x';"
NAMEKEY == "name:"
SETUP == "setup"
DOTVUE == ".vue"
APOS == "'"
\* the grave accent, which a TLA+ string cannot hold
BACKTICK == "<grave>"

\* what \s and String.prototype.trim take for white space
WhiteSpace == {SP, NL}

Min(S) == CHOOSE x \in S : \A y \in S : x <= y
Max(S) == CHOOSE x \in S : \A y \in S : x >= y

\* s.slice(from - 1, to) in 1-based inclusive positions, clamped as slice clamps
Slice(s, from, to) ==
    SubSeq(s, from, IF to > Len(s) THEN Len(s) ELSE to)

\* s.indexOf(pat) + 1, or 0 when pat does not occur in s
IndexOf(s, pat) ==
    LET hits == { i \in 1..(Len(s) - Len(pat) + 1) :
                     SubSeq(s, i, i + Len(pat) - 1) = pat }
    IN IF hits = {} THEN 0 ELSE Min(hits)

Includes(s, tok) == \E i \in 1..Len(s) : s[i] = tok

StartsWith(s, pre) ==
    /\ Len(pre) <= Len(s)
    /\ SubSeq(s, 1, Len(pre)) = pre

EndsWith(s, suf) ==
    /\ Len(suf) <= Len(s)
    /\ SubSeq(s, Len(s) - Len(suf) + 1, Len(s)) = suf

\* String.prototype.trim
Trim(s) ==
    LET keep == { i \in 1..Len(s) : s[i] \notin WhiteSpace }
    IN IF keep = {} THEN <<>> ELSE SubSeq(s, Min(keep), Max(keep))

\* The replacement-string patterns of String.prototype.replace: $$ is a
\* dollar sign, $& the matched text, $ and a grave accent the text before the
\* match, $ and an apostrophe the text after it; neither pattern of the program has a capture group, so $1..$99
\* and $< stay as written.
RECURSIVE GetSubstitution(_, _, _, _, _)
GetSubstitution(replacement, i, matched, before, after) ==
    IF i > Len(replacement) THEN <<>>
    ELSE IF /\ replacement[i] = "$"
            /\ i < Len(replacement)
            /\ replacement[i + 1] \in {"$", "&", BACKTICK, APOS}
         THEN (CASE replacement[i + 1] = "$" -> <<"$">>
                 [] replacement[i + 1] = "&" -> matched
                 [] replacement[i + 1] = BACKTICK -> before
                 [] replacement[i + 1] = APOS -> after)
              \o GetSubstitution(replacement, i + 2, matched, before, after)
         ELSE <<replacement[i]>>
              \o GetSubstitution(replacement, i + 1, matched, before, after)

\* s with positions from..to replaced as String.prototype.replace replaces a
\* match
ReplaceSpan(s, from, to, replacement) ==
    LET before == SubSeq(s, 1, from - 1)
        after == SubSeq(s, to + 1, Len(s))
    IN before
       \o GetSubstitution(replacement, 1, SubSeq(s, from, to), before, after)
       \o after

\* s.replace(pat, replacement) for a string pat: the first occurrence only
ReplaceString(s, pat, replacement) ==
    LET at == IndexOf(s, pat)
    IN IF at = 0 THEN s
       ELSE ReplaceSpan(s, at, at + Len(pat) - 1, replacement)

-----------------------------------------------------------------------------
(* Component patcher: the text transformation of one component file *)

NoMatch == [index |-> 0]

\* const defineLine: defineOptions({ name: "<name>" });
defineLine(name) ==
    <<MARKER, "(", "{", SP, NAMEKEY, SP, DQ>> \o name \o <<DQ, SP, "}", ")", ";">>

\* content.match(/<script([^>]*)>([\s\S]*?)<\/script>/): the leftmost position
\* of "<script" from which the pattern matches.  [^>]* runs to the first ">"
\* after it, the lazy [\s\S]*? to the first "</script>" after that.
\* index: where the block starts; gt: the ">" ending the opening tag;
\* close: where "</script>" starts.
scriptRegex(content) ==
    LET n == Len(content)
        firstGt(i) == Min({ j \in (i + 1)..n : content[j] = GT })
        closes(j) == { k \in (j + 1)..(n - 1) :
                          content[k] = CLOSETAG /\ content[k + 1] = GT }
        starts == { i \in 1..n :
                      /\ content[i] = OPENTAG
                      /\ \E j \in (i + 1)..n : content[j] = GT
                      /\ closes(firstGt(i)) # {} }
    IN IF starts = {} THEN NoMatch
       ELSE LET i == Min(starts)
                j == firstGt(i)
            IN [index |-> i, gt |-> j, close |-> Min(closes(j))]

\* the position after \s* from position p on
SkipSpace(s, p) ==
    Min({ q \in p..(Len(s) + 1) : q > Len(s) \/ s[q] \notin WhiteSpace })

\* Where /defineOptions\s*\(\s*\{[^}]*\}\s*\)\s*;?/ matches from position i:
\* the last position of the match, or 0 when it does not match there.
defineRegexAt(s, i) ==
    LET n == Len(s)
        a == SkipSpace(s, i + 1)
        b == SkipSpace(s, a + 1)
        braces == { c \in (b + 1)..n : s[c] = "}" }
        c == Min(braces)
        d == SkipSpace(s, c + 1)
        e == SkipSpace(s, d + 1)
    IN IF /\ s[i] = MARKER
          /\ a <= n /\ s[a] = "("
          /\ b <= n /\ s[b] = "{"
          /\ braces # {}
          /\ d <= n /\ s[d] = ")"
       THEN (IF e <= n /\ s[e] = ";" THEN e ELSE e - 1)
       ELSE 0

\* scriptContent.replace(/defineOptions\s*\(\s*\{[^}]*\}\s*\)\s*;?/, defineLine):
\* the leftmost match is replaced; without a match the text is returned as is
replaceDefineOptions(scriptContent, line) ==
    LET hits == { i \in 1..Len(scriptContent) : defineRegexAt(scriptContent, i) > 0 }
    IN IF hits = {} THEN scriptContent
       ELSE LET i == Min(hits)
            IN ReplaceSpan(scriptContent, i, defineRegexAt(scriptContent, i), line)

\* sourceFile.getImportDeclarations(): the positions of the import
\* declarations among the statements of the script
getImportDeclarations(scriptContent) ==
    { i \in 1..Len(scriptContent) : scriptContent[i] = IMP }

\* imports.length > 0 ? imports.at(-1)!.getEnd() + 1 : 0
\* (getEnd() is the offset just after the declaration's ";"; every lexeme that
\* can follow an import declaration here is one character long)
insertPos(scriptContent) ==
    LET imports == getImportDeclarations(scriptContent)
    IN IF imports # {} THEN Max(imports) + 1 ELSE 0

\* insertDefineLine without the line end it puts before the statement
insertDefineLineNoBlank(scriptContent, line) ==
    LET pos == insertPos(scriptContent)
    IN IF pos > 0
       THEN Slice(scriptContent, 1, pos) \o line \o <<NL>>
            \o SubSeq(scriptContent, pos + 1, Len(scriptContent))
       ELSE line \o <<NL>> \o scriptContent

\* the insertion of defineLine when the script holds no marker
insertDefineLine(scriptContent, line) ==
    LET pos == insertPos(scriptContent)
    IN IF pos > 0
       THEN Slice(scriptContent, 1, pos) \o <<NL>> \o line \o <<NL>>
            \o SubSeq(scriptContent, pos + 1, Len(scriptContent))
       ELSE line \o <<NL>> \o scriptContent

\* the branch on scriptContent.includes("defineOptions")
mutateScript(scriptContent, line) ==
    IF Includes(scriptContent, MARKER)
    THEN replaceDefineOptions(scriptContent, line)
    ELSE insertDefineLine(scriptContent, line)

\* const newScript: <script{attrs}> \n {scriptContent.trim()} \n </script>
newScript(attrs, scriptContent) ==
    <<OPENTAG>> \o attrs \o <<GT, NL>> \o Trim(scriptContent) \o <<NL, CLOSETAG, GT>>

\* synthesize with the new block after the content
synthesizeAtEnd(content, line) ==
    content \o <<OPENTAG, SP, SETUP, GT, NL>> \o line \o <<NL, CLOSETAG, GT, NL>>

\* <script setup> \n {defineLine} \n </script> \n, then content
synthesize(content, line) ==
    <<OPENTAG, SP, SETUP, GT, NL>> \o line \o <<NL, CLOSETAG, GT, NL>> \o content

\* the text written back to a component file whose text is content
newContent(content, name) ==
    LET match == scriptRegex(content)
    IN IF match # NoMatch
       THEN LET attrs == SubSeq(content, match.index + 1, match.gt - 1)
                scriptContent == SubSeq(content, match.gt + 1, match.close - 1)
                oldBlock == SubSeq(content, match.index, match.close + 1)
            IN ReplaceString(content, oldBlock,
                             newScript(attrs, mutateScript(scriptContent, defineLine(name))))
       ELSE synthesize(content, defineLine(name))

-----------------------------------------------------------------------------
(* Paths *)

\* "@/views/"
VIEWS_PREFIX == <<"@", "/", "views", "/">>

\* p.split("/"): the segments between the separators, empty ones included
RECURSIVE Split(_)
Split(p) ==
    LET seps == { i \in 1..Len(p) : p[i] = "/" }
    IN IF seps = {} THEN <<p>>
       ELSE <<SubSeq(p, 1, Min(seps) - 1)>>
            \o Split(SubSeq(p, Min(seps) + 1, Len(p)))

\* isExcluded with relativePath.includes(dir) for the test
isExcludedBySubstring(relativePath, dirs) ==
    \E dir \in dirs : IndexOf(relativePath, dir) > 0

\* excludeDirs.some(dir => relativePath.split("/").includes(dir))
isExcluded(relativePath, dirs) ==
    \E dir \in dirs :
        \E k \in 1..Len(Split(relativePath)) : Split(relativePath)[k] = dir

\* relativePath.endsWith(".vue") ? relativePath : relativePath + ".vue"
withExtension(relativePath) ==
    IF EndsWith(relativePath, <<DOTVUE>>) THEN relativePath
    ELSE relativePath \o <<DOTVUE>>

\* path.join's normalisation of the part below viewsDir: empty and "."
\* segments go, the others are joined by one separator each
RECURSIVE JoinSegments(_)
JoinSegments(segs) ==
    IF segs = <<>> THEN <<>>
    ELSE IF Head(segs) = <<>> \/ Head(segs) = <<".">> THEN JoinSegments(Tail(segs))
    ELSE LET rest == JoinSegments(Tail(segs))
         IN IF rest = <<>> THEN Head(segs) ELSE Head(segs) \o <<"/">> \o rest

\* path.join(viewsDir, ...), as the path below viewsDir
vueFilePath(relativePath) == JoinSegments(Split(withExtension(relativePath)))

\* An entry of the views directory: a regular file with its text, a file that
\* may be read and not written, a directory, or nothing at that path.
File(text) == [kind |-> "file", text |-> text]
ReadOnlyFile(text) == [kind |-> "readonly", text |-> text]
Directory == [kind |-> "dir", text |-> <<>>]
Absent == [kind |-> "none", text |-> <<>>]

entryAt(fs, path) == IF path \in DOMAIN fs THEN fs[path] ELSE Absent

\* fs.existsSync(vueFilePath)
existsSync(fs, path) == entryAt(fs, path).kind # "none"

\* fs.readFileSync throws on a path that is a directory, fs.writeFileSync on
\* a file that may not be written
ioThrows(fs, path) == entryAt(fs, path).kind \in {"dir", "readonly"}

-----------------------------------------------------------------------------
(* Route extractor *)

\* The array literal the default export resolves to, or none.  A route file
\* is [hasExport, exportKind, innerKind, declKind, initKind, initInnerKind,
\* elements]: the kinds of the nodes the three resolution paths look at.
resolvesToArray(file) ==
    IF file.exportKind = "ArrayLiteralExpression" THEN TRUE
    ELSE IF file.exportKind = "AsExpression"
         THEN file.innerKind = "ArrayLiteralExpression"
    ELSE IF file.exportKind = "Identifier"
         THEN /\ file.declKind = "VariableDeclaration"
              /\ IF file.initKind = "ArrayLiteralExpression" THEN TRUE
                 ELSE IF file.initKind = "AsExpression"
                      THEN file.initInnerKind = "ArrayLiteralExpression"
                      ELSE FALSE
    ELSE FALSE

\* routeArray.getElements().filter(e => e.getKind() === ObjectLiteralExpression)
RECURSIVE routeObjects(_)
routeObjects(elements) ==
    IF elements = <<>> THEN <<>>
    ELSE IF Head(elements).kind = "ObjectLiteralExpression"
         THEN <<Head(elements)>> \o routeObjects(Tail(elements))
         ELSE routeObjects(Tail(elements))

\* isMatched without the test of the prefix
isMatchedAnyPrefix(route) ==
    /\ route.hasName /\ route.hasComponent
    /\ route.nameIsLiteral /\ route.nameText # <<>>
    /\ route.hasArrow
    /\ route.hasImportCall
    /\ route.argKind = "StringLiteral"

\* The checks of the loop body on one object literal: both properties, a
\* non-empty literal text for the name, an arrow function, an import call, a
\* string-literal argument that starts with the prefix.
isMatched(route) ==
    /\ route.hasName /\ route.hasComponent
    /\ route.nameIsLiteral /\ route.nameText # <<>>
    /\ route.hasArrow
    /\ route.hasImportCall
    /\ route.argKind = "StringLiteral"
    /\ StartsWith(route.importPath, VIEWS_PREFIX)

\* importPath.replace("@/views/", "")
relativePathOf(importPath) == ReplaceString(importPath, VIEWS_PREFIX, <<>>)

RouteItem(route) ==
    [name |-> route.nameText, relativePath |-> relativePathOf(route.importPath)]

-----------------------------------------------------------------------------
(* Inputs: route files, views directories, exclude lists *)

\* the longest route array
MaxRoutes == 2
\* the longest free-form script body
MaxBody == 3

UserList == <<"UserList">>
Other == <<"Other">>
Dollars == <<"$", "$">>

ListVue == <<"user", "/", "list", DOTVUE>>
List == <<"user", "/", "list">>
ErrorList == <<"error", "/", "list">>
ErrorLogsList == <<"error", "Logs", "/", "list">>
Broken == <<"broken">>
Locked == <<"locked">>

\* { name: "<name>", component: () => import("<path>") }
Descriptor(name, path) ==
    [kind |-> "ObjectLiteralExpression",
     hasName |-> TRUE, nameIsLiteral |-> TRUE, nameText |-> name,
     hasComponent |-> TRUE, hasArrow |-> TRUE, hasImportCall |-> TRUE,
     argKind |-> "StringLiteral", importPath |-> path]

Plain == Descriptor(UserList, VIEWS_PREFIX \o ListVue)

\* array elements the loop drops: a spread, an identifier, { meta: {} },
\* { name: "UserList" }, { name: title, component }, { name, component: Layout },
\* { name, component: () => Layout }, an import of a template literal, an
\* import from "@/layouts/"
Malformed ==
    { [Plain EXCEPT !.kind = "SpreadElement"],
      [Plain EXCEPT !.kind = "Identifier"],
      [Plain EXCEPT !.hasName = FALSE, !.hasComponent = FALSE],
      [Plain EXCEPT !.hasComponent = FALSE],
      [Plain EXCEPT !.nameIsLiteral = FALSE],
      [Plain EXCEPT !.hasArrow = FALSE],
      [Plain EXCEPT !.hasImportCall = FALSE],
      [Plain EXCEPT !.argKind = "NoSubstitutionTemplateLiteral"],
      [Plain EXCEPT !.importPath = <<"@", "/", "layouts", "/", "list">>] }

\* descriptors with a string-literal name and an import of a string literal
\* that starts with the prefix
Descriptors ==
    { Plain,
      Descriptor(Other, VIEWS_PREFIX \o List),
      Descriptor(UserList, VIEWS_PREFIX \o ErrorList),
      Descriptor(Other, VIEWS_PREFIX \o ErrorLogsList),
      Descriptor(Other, VIEWS_PREFIX \o Broken),
      Descriptor(Other, VIEWS_PREFIX \o Locked),
      Descriptor(Dollars, VIEWS_PREFIX \o ListVue),
      Descriptor(UserList, VIEWS_PREFIX),
      Descriptor(Other, VIEWS_PREFIX \o VIEWS_PREFIX \o List),
      Descriptor(<<>>, VIEWS_PREFIX \o List) }

\* the descriptors of the component user/list.vue
PatchDescriptors ==
    { Plain,
      Descriptor(Other, VIEWS_PREFIX \o List),
      Descriptor(Dollars, VIEWS_PREFIX \o ListVue) }

SeqsUpTo(S, n) == UNION { [1..k -> S] : k \in 0..n }

\* export default [ ... ]
ArrayExport(elements) ==
    [hasExport |-> TRUE, exportKind |-> "ArrayLiteralExpression", innerKind |-> "-",
     declKind |-> "-", initKind |-> "-", initInnerKind |-> "-", elements |-> elements]

\* the other shapes of the route file, around one fixed array
ExportShapes ==
    LET base == ArrayExport(<<Plain, Descriptor(Other, VIEWS_PREFIX \o ErrorLogsList)>>)
    IN { [base EXCEPT !.hasExport = FALSE, !.exportKind = "-"],
         [base EXCEPT !.exportKind = "AsExpression", !.innerKind = "ArrayLiteralExpression"],
         [base EXCEPT !.exportKind = "AsExpression", !.innerKind = "Identifier"],
         [base EXCEPT !.exportKind = "ObjectLiteralExpression"],
         [base EXCEPT !.exportKind = "Identifier", !.declKind = "FunctionDeclaration"],
         [base EXCEPT !.exportKind = "Identifier", !.declKind = "VariableDeclaration",
                      !.initKind = "ArrayLiteralExpression"],
         [base EXCEPT !.exportKind = "Identifier", !.declKind = "VariableDeclaration",
                      !.initKind = "AsExpression",
                      !.initInnerKind = "ArrayLiteralExpression"],
         [base EXCEPT !.exportKind = "Identifier", !.declKind = "VariableDeclaration",
                      !.initKind = "AsExpression", !.initInnerKind = "CallExpression"],
         [base EXCEPT !.exportKind = "Identifier", !.declKind = "VariableDeclaration",
                      !.initKind = "CallExpression"] }

\* the scenario's component: <script> \n import {ref} from 'x'; \n </script>
ScenarioText == <<OPENTAG, GT, NL, IMP, NL, CLOSETAG, GT>>

Block(attrs, body) == <<OPENTAG>> \o attrs \o <<GT>> \o body \o <<CLOSETAG, GT>>

\* script bodies without a marker: statements, imports, line ends
FreeBodies == SeqsUpTo({IMP, NL, "x", "$"}, MaxBody)

\* script bodies with a marker: a call (or a mere mention) of defineOptions
\* between two pieces of other code
Calls ==
    { defineLine(UserList), defineLine(Other),
      <<MARKER, "(", "{", "}", ")">>,
      <<MARKER, SP, "(", NL, "{", "x", "}", SP, ")", NL>>,
      <<MARKER, "(", "{", "x", "{", "}", "}", ")">>,
      <<MARKER, "(", "x", ")">>,
      <<"/", "/", SP, MARKER>> }

Pads == { <<>>, <<"x", ";">>, <<NL>>, <<"$", "&">> }

MarkerBodies == { a \o c \o b : a \in Pads, b \in Pads, c \in Calls }

\* component texts with a script region
ScriptTexts ==
    { Block(<<>>, body) : body \in FreeBodies \cup MarkerBodies }
    \cup { pre \o Block(attrs, body) \o post :
             pre \in { <<>>, <<"x", NL>> },
             attrs \in { <<SP, SETUP>>, <<SP, "lang">> },
             body \in { <<NL, IMP, NL>>, <<"x", "$", APOS>>, <<MARKER, "(", "{", "}", ")">> },
             post \in { <<NL, "x">>, <<NL>> \o Block(<<>>, <<MARKER, "(", "{", "}", ")">>) } }

\* component texts without one
PlainTexts ==
    { <<>>, <<"x", NL>>, <<OPENTAG, GT, "x">>, <<"x", CLOSETAG, GT>>,
      <<CLOSETAG, GT, OPENTAG, SP, SETUP>>, <<"$", "$", MARKER>> }

\* the views directory around the component user/list.vue
ViewsDir(text) ==
    [path \in {ListVue, ErrorList \o <<DOTVUE>>, ErrorLogsList \o <<DOTVUE>>,
               Broken \o <<DOTVUE>>, Locked \o <<DOTVUE>>} |->
        IF path = ListVue THEN File(text)
        ELSE IF path = ErrorList \o <<DOTVUE>> THEN File(ScenarioText)
        ELSE IF path = ErrorLogsList \o <<DOTVUE>> THEN File(<<"x", NL>>)
        ELSE IF path = Locked \o <<DOTVUE>> THEN ReadOnlyFile(ScenarioText)
        ELSE Directory]

-----------------------------------------------------------------------------
(* injectDefineOptions as a state machine *)

Message(level, kind, path) == [level |-> level, kind |-> kind, path |-> path]

\* every route array over the descriptors and the malformed elements, before
\* one views directory
InitExtract ==
    /\ routeFile \in
         { ArrayExport(es) : es \in SeqsUpTo(Descriptors \cup Malformed, MaxRoutes) }
         \cup ExportShapes
    /\ viewsFs = ViewsDir(ScenarioText)
    /\ excludeDirs \in { {}, {<<"error">>} }

\* every component text, before the route arrays that reach it
InitPatch ==
    /\ routeFile \in { ArrayExport(es) : es \in SeqsUpTo(PatchDescriptors, MaxRoutes) }
    /\ viewsFs \in { ViewsDir(text) : text \in ScriptTexts \cup PlainTexts }
    /\ excludeDirs = {<<"error">>}

Init ==
    /\ pc = "start"
    /\ routeArray = <<>>
    /\ matchedRoutes = <<>>
    /\ idx = 0
    /\ console = <<>>
    /\ InitExtract \/ InitPatch
    /\ prevFs = viewsFs
    /\ initFs = viewsFs

\* no ExportAssignment in the route file: console.error and return
NoExportAssignment ==
    /\ pc = "start"
    /\ ~routeFile.hasExport
    /\ console' = Append(console, Message("error", "noExport", <<>>))
    /\ pc' = "done"
    /\ UNCHANGED <<initFs, routeFile, viewsFs, excludeDirs, routeArray, matchedRoutes, idx, prevFs>>

\* the export resolves to no array literal: console.error and return
NotAnArray ==
    /\ pc = "start"
    /\ routeFile.hasExport
    /\ ~resolvesToArray(routeFile)
    /\ console' = Append(console, Message("error", "notArray", <<>>))
    /\ pc' = "done"
    /\ UNCHANGED <<initFs, routeFile, viewsFs, excludeDirs, routeArray, matchedRoutes, idx, prevFs>>

\* the array literal is found and its object literals are kept
ResolveRouteArray ==
    /\ pc = "start"
    /\ routeFile.hasExport
    /\ resolvesToArray(routeFile)
    /\ routeArray' = routeObjects(routeFile.elements)
    /\ idx' = 1
    /\ pc' = "extract"
    /\ UNCHANGED <<initFs, routeFile, viewsFs, excludeDirs, matchedRoutes, prevFs, console>>

\* one turn of for (const route of routeObjects)
ExtractRoute ==
    /\ pc = "extract"
    /\ idx <= Len(routeArray)
    /\ matchedRoutes' = IF isMatched(routeArray[idx])
                        THEN Append(matchedRoutes, RouteItem(routeArray[idx]))
                        ELSE matchedRoutes
    /\ idx' = idx + 1
    /\ UNCHANGED <<initFs, pc, routeFile, viewsFs, excludeDirs, routeArray, prevFs, console>>

\* matchedRoutes.length === 0: console.warn and return
NoMatches ==
    /\ pc = "extract"
    /\ idx > Len(routeArray)
    /\ matchedRoutes = <<>>
    /\ console' = Append(console, Message("warn", "noMatch", <<>>))
    /\ pc' = "done"
    /\ UNCHANGED <<initFs, routeFile, viewsFs, excludeDirs, routeArray, matchedRoutes, idx, prevFs>>

\* matchedRoutes.forEach begins
BeginPatch ==
    /\ pc = "extract"
    /\ idx > Len(routeArray)
    /\ matchedRoutes # <<>>
    /\ pc' = "patch"
    /\ idx' = 1
    /\ UNCHANGED <<initFs, routeFile, viewsFs, excludeDirs, routeArray, matchedRoutes, prevFs, console>>

\* the route forEach is at
route == matchedRoutes[idx]

AtRoute == pc = "patch" /\ idx <= Len(matchedRoutes)

\* a turn of forEach that leaves the views directory as it is
Skip(level, kind, path) ==
    /\ console' = Append(console, Message(level, kind, path))
    /\ prevFs' = viewsFs
    /\ idx' = idx + 1
    /\ UNCHANGED <<initFs, pc, routeFile, viewsFs, excludeDirs, routeArray, matchedRoutes>>

\* a turn of forEach that writes text to the component file
Write(text, kind) ==
    /\ viewsFs' = [viewsFs EXCEPT ![vueFilePath(route.relativePath)] = File(text)]
    /\ prevFs' = viewsFs
    /\ console' = Append(console, Message("log", kind, vueFilePath(route.relativePath)))
    /\ idx' = idx + 1
    /\ UNCHANGED <<initFs, pc, routeFile, excludeDirs, routeArray, matchedRoutes>>

\* the route passes through an excluded directory: console.log and return
PatchIgnored ==
    /\ AtRoute
    /\ isExcluded(route.relativePath, excludeDirs)
    /\ Skip("log", "ignored", route.relativePath)

\* PatchNotFound with a return that leaves the whole function
PatchNotFoundReturns ==
    /\ AtRoute
    /\ ~isExcluded(route.relativePath, excludeDirs)
    /\ ~existsSync(viewsFs, vueFilePath(route.relativePath))
    /\ console' = Append(console, Message("warn", "notFound", vueFilePath(route.relativePath)))
    /\ prevFs' = viewsFs
    /\ pc' = "done"
    /\ UNCHANGED <<initFs, idx, routeFile, viewsFs, excludeDirs, routeArray, matchedRoutes>>

\* the component file does not exist: console.warn and return
PatchNotFound ==
    /\ AtRoute
    /\ ~isExcluded(route.relativePath, excludeDirs)
    /\ ~existsSync(viewsFs, vueFilePath(route.relativePath))
    /\ Skip("warn", "notFound", vueFilePath(route.relativePath))

\* readFileSync or writeFileSync throws: nothing catches it, forEach and the
\* function end, and the file is as it was
PatchThrows ==
    /\ AtRoute
    /\ ~isExcluded(route.relativePath, excludeDirs)
    /\ existsSync(viewsFs, vueFilePath(route.relativePath))
    /\ ioThrows(viewsFs, vueFilePath(route.relativePath))
    /\ pc' = "crashed"
    /\ prevFs' = viewsFs
    /\ UNCHANGED <<initFs, routeFile, viewsFs, excludeDirs, routeArray, matchedRoutes, idx, console>>

Readable ==
    /\ AtRoute
    /\ ~isExcluded(route.relativePath, excludeDirs)
    /\ existsSync(viewsFs, vueFilePath(route.relativePath))
    /\ ~ioThrows(viewsFs, vueFilePath(route.relativePath))

content == viewsFs[vueFilePath(route.relativePath)].text

\* the file has a script block: the statement is put in or replaced
PatchScript ==
    /\ Readable
    /\ scriptRegex(content) # NoMatch
    /\ Write(newContent(content, route.name), "processed")

\* the file has no script block: a script setup block is put before it
PatchCreate ==
    /\ Readable
    /\ scriptRegex(content) = NoMatch
    /\ Write(newContent(content, route.name), "created")

\* forEach is through: the function returns
Finish ==
    /\ pc = "patch"
    /\ idx > Len(matchedRoutes)
    /\ pc' = "done"
    /\ UNCHANGED <<initFs, routeFile, viewsFs, excludeDirs, routeArray, matchedRoutes, idx, prevFs, console>>

Next ==
    \/ NoExportAssignment
    \/ NotAnArray
    \/ ResolveRouteArray
    \/ ExtractRoute
    \/ NoMatches
    \/ BeginPatch
    \/ PatchIgnored
    \/ PatchNotFound
    \/ PatchThrows
    \/ PatchScript
    \/ PatchCreate
    \/ Finish

Spec == Init /\ [][Next]_vars

-----------------------------------------------------------------------------
(* What the properties speak of *)

\* forEach has taken at least one turn that wrote a component file
Patched ==
    /\ pc \in {"patch", "done"}
    /\ idx > 1
    /\ console # <<>>
    /\ console[Len(console)].kind \in {"processed", "created"}

LastKind == console[Len(console)].kind
LastRoute == matchedRoutes[idx - 1]
\* the component file of the last turn, before and after it
Before == prevFs[console[Len(console)].path].text
After == viewsFs[console[Len(console)].path].text

\* the statement for a name, lexeme by lexeme
Statement(name) ==
    <<"defineOptions", "(", "{", " ", "name:", " ", "\"">> \o name
    \o <<"\"", " ", "}", ")", ";">>

\* text holds <script ... > ... </script> somewhere
ClosedAfter(text, j) ==
    \E k \in (j + 1)..(Len(text) - 1) : text[k] = "</script" /\ text[k + 1] = ">"

OpensAt(text, i) ==
    /\ text[i] = "<script"
    /\ \E j \in (i + 1)..Len(text) : text[j] = ">" /\ ClosedAfter(text, j)

HasScriptRegion(text) == \E i \in 1..Len(text) : OpensAt(text, i)

\* The first script block of a text that has one: where it starts, where its
\* opening tag ends, where its closing tag starts.
FirstOpen(text) == Min({ i \in 1..Len(text) : OpensAt(text, i) })
FirstOpenEnd(text) ==
    Min({ j \in (FirstOpen(text) + 1)..Len(text) : text[j] = ">" })
FirstClose(text) ==
    Min({ k \in (FirstOpenEnd(text) + 1)..(Len(text) - 1) :
            text[k] = "</script" /\ text[k + 1] = ">" })

RegionOf(text) == SubSeq(text, FirstOpenEnd(text) + 1, FirstClose(text) - 1)
AttrsOf(text) == SubSeq(text, FirstOpen(text) + 1, FirstOpenEnd(text) - 1)
PrefixOf(text) == SubSeq(text, 1, FirstOpen(text) - 1)
SuffixOf(text) == SubSeq(text, FirstClose(text) + 2, Len(text))

Occurs(text, piece) ==
    \E i \in 1..(Len(text) - Len(piece) + 1) : SubSeq(text, i, i + Len(piece) - 1) = piece

Count(text, tok) == Cardinality({ i \in 1..Len(text) : text[i] = tok })

\* relativePath has dir as one whole segment
HasSegment(relativePath, dir) ==
    /\ \A i \in 1..Len(dir) : dir[i] # "/"
    /\ \E i \in 1..(Len(relativePath) + 1) :
          /\ i + Len(dir) - 1 <= Len(relativePath)
          /\ SubSeq(relativePath, i, i + Len(dir) - 1) = dir
          /\ i = 1 \/ relativePath[i - 1] = "/"
          /\ \/ i + Len(dir) - 1 = Len(relativePath)
             \/ relativePath[i + Len(dir)] = "/"

\* a route name as route names usually are: no dollar sign in it
PlainName(name) == \A i \in 1..Len(name) : name[i] # "$"

\* region holds a call of defineOptions: the marker, then "(" after at most
\* white space
HasCall(region) ==
    \E i, j \in 1..Len(region) :
        /\ i < j
        /\ region[i] = "defineOptions"
        /\ region[j] = "("
        /\ \A m \in (i + 1)..(j - 1) : region[m] \in {" ", "\n"}

PassesExcluded(relativePath) == \E dir \in excludeDirs : HasSegment(relativePath, dir)

-----------------------------------------------------------------------------
(* Properties *)

\* C1: patching a component file and then patching the result again with the
\* same route name leaves the file as the first patch left it: the second
\* patch replaces the statement and adds nothing.  (Stated for the route
\* names without a dollar sign.)
C1_SecondPatchChangesNothing ==
    ( /\ Patched
      /\ idx > 2
      /\ PlainName(LastRoute.name)
      /\ matchedRoutes[idx - 1] = matchedRoutes[idx - 2]
      /\ console[Len(console) - 1].kind \in {"processed", "created"} )
    => /\ After = Before
       /\ Count(After, "defineOptions") = Count(Before, "defineOptions")

\* C2: when a script region is found, the written file is the text before the
\* first block, then <script{attrs}> \n {trimmed mutated content} \n </script>,
\* then the text after the first block, and nothing else.  (Stated for the
\* route names without a dollar sign.)
C2_OnlyTheFirstBlockChanges ==
    (Patched /\ LastKind = "processed" /\ PlainName(LastRoute.name))
    => After = PrefixOf(Before)
               \o <<"<script">> \o AttrsOf(Before) \o <<">", "\n">>
               \o Trim(mutateScript(RegionOf(Before), Statement(LastRoute.name)))
               \o <<"\n", "</script", ">">>
               \o SuffixOf(Before)

\* forEach has begun: console[k] is what became of matchedRoutes[k]
InForEach == pc \in {"patch", "done", "crashed"} /\ matchedRoutes # <<>>

\* C3: a route whose relativePath has an excluded name as a whole segment is
\* skipped and its file is never written; a route that holds the name only
\* inside a longer segment is not skipped for it.
C3_ExclusionByWholeSegment ==
    InForEach =>
      /\ \A k \in 1..Len(console) :
            (console[k].kind = "ignored") <=> PassesExcluded(matchedRoutes[k].relativePath)
      /\ (console # <<>> /\ LastKind = "ignored") => viewsFs = prevFs
      /\ \A k \in 1..Len(matchedRoutes) :
            PassesExcluded(matchedRoutes[k].relativePath)
            => LET path == vueFilePath(matchedRoutes[k].relativePath)
               IN entryAt(viewsFs, path) = entryAt(initFs, path)

\* error/list is skipped for the excluded name error, errorLogs/list is
\* patched in the same run
C3_Witness ==
    /\ InForEach
    /\ pc = "done"
    /\ excludeDirs = {<<"error">>}
    /\ \E k \in 1..Len(console) :
          /\ matchedRoutes[k].relativePath = <<"error", "/", "list">>
          /\ console[k].kind = "ignored"
    /\ \E k \in 1..Len(console) :
          /\ matchedRoutes[k].relativePath = <<"error", "Logs", "/", "list">>
          /\ console[k].kind = "created"
          /\ viewsFs[console[k].path] # initFs[console[k].path]

\* the extraction loop is through
Extracted == pc \in {"patch", "done", "crashed"} \/ (pc = "extract" /\ idx > Len(routeArray))

\* a descriptor as the claim describes it: an object literal with a
\* string-literal name and a component arrow function that imports a
\* string-literal path starting with "@/views/"
WellFormed(e) ==
    /\ e.kind = "ObjectLiteralExpression"
    /\ e.hasName /\ e.nameIsLiteral
    /\ e.hasComponent /\ e.hasArrow /\ e.hasImportCall
    /\ e.argKind = "StringLiteral"
    /\ Len(e.importPath) >= 4
    /\ SubSeq(e.importPath, 1, 4) = <<"@", "/", "views", "/">>

\* the pair a descriptor stands for
PairOf(e) ==
    [name |-> e.nameText,
     relativePath |-> SubSeq(e.importPath, 5, Len(e.importPath))]

\* the pairs of a sequence of descriptors, in its order
Pairs(descriptors) == [k \in 1..Len(descriptors) |-> PairOf(descriptors[k])]

\* C4 as stated: the extractor yields exactly the well-formed descriptors, in
\* array order, and none of the malformed elements.
C4_AllWellFormedExtracted ==
    (Extracted /\ routeFile.hasExport /\ resolvesToArray(routeFile))
    => matchedRoutes = Pairs(SelectSeq(routeFile.elements, WellFormed))

WellFormedNamed(e) == WellFormed(e) /\ e.nameText # <<>>

\* C4, amended: the extractor yields exactly the well-formed descriptors whose
\* name is not the empty string, in array order, and none of the others.
C4_NamedWellFormedExtracted ==
    (Extracted /\ routeFile.hasExport /\ resolvesToArray(routeFile))
    => matchedRoutes = Pairs(SelectSeq(routeFile.elements, WellFormedNamed))

\* a malformed element between two well-formed descriptors, or a well-formed
\* descriptor between two malformed elements, has been gone through
C4_Witness ==
    /\ Extracted
    /\ matchedRoutes # <<>>
    /\ Len(matchedRoutes) < Len(routeFile.elements)
    /\ \E i, j \in 1..Len(routeFile.elements) :
          /\ i < j
          /\ WellFormedNamed(routeFile.elements[i]) # WellFormedNamed(routeFile.elements[j])

\* C5: every pair the extractor emits has a relativePath that is not empty
\* and does not start with "@/views/".
C5_RelativePathStripped ==
    \A k \in 1..Len(matchedRoutes) :
        /\ matchedRoutes[k].relativePath # <<>>
        /\ ~( /\ Len(matchedRoutes[k].relativePath) >= 4
              /\ SubSeq(matchedRoutes[k].relativePath, 1, 4) = <<"@", "/", "views", "/">> )

\* the component file of matchedRoutes[k] is a regular file on a path that
\* passes through no excluded directory
Patchable(k) ==
    /\ ~PassesExcluded(matchedRoutes[k].relativePath)
    /\ entryAt(viewsFs, vueFilePath(matchedRoutes[k].relativePath)).kind = "file"

\* C6 as stated: whatever happens to one route, an error raised by its read
\* or write included, every later route with a file to patch is patched by
\* the time the run is over.
C6_LaterRoutesAlwaysPatched ==
    (InForEach /\ pc \in {"done", "crashed"})
    => \A k \in 1..Len(matchedRoutes) :
          Patchable(k)
          => k <= Len(console) /\ console[k].kind \in {"processed", "created"}

\* C6, amended: a route that is skipped (excluded directory, missing file)
\* never keeps the later routes from being processed: a run that returns has
\* handled every matched route.  An error raised by a read or a write is not
\* caught: it ends the run at that route and the routes after it are not
\* processed.
C6_SkipsGoOnThrowsEndTheRun ==
    /\ (InForEach /\ pc = "done")
       => /\ Len(console) = Len(matchedRoutes)
          /\ \A k \in 1..Len(matchedRoutes) :
                Patchable(k) => console[k].kind \in {"processed", "created"}
    /\ pc = "crashed"
       => /\ idx <= Len(matchedRoutes)
          /\ entryAt(viewsFs, vueFilePath(matchedRoutes[idx].relativePath)).kind
                \in {"dir", "readonly"}
          /\ Len(console) = idx - 1
          /\ viewsFs = prevFs

\* the write of the first route's file has thrown and the second route, left
\* unprocessed, has a file to patch
C6_Witness ==
    /\ pc = "crashed"
    /\ idx = 1
    /\ matchedRoutes[1].relativePath = <<"locked">>
    /\ Len(matchedRoutes) = 2
    /\ Patchable(2)
    /\ console = <<>>

\* C7 as stated: for <script> \n import {ref} from 'x'; \n </script> and the
\* route name UserList the output is the import, then on the next line, with
\* no blank line in between, the statement, then \n </script>.
C7_NoBlankLineAfterImports ==
    ( /\ Patched
      /\ Before = <<"<script", ">", "\n", "import {ref} from 'x';", "\n", "</script", ">">>
      /\ LastRoute.name = <<"UserList">> )
    => After = <<"<script", ">", "\n", "import {ref} from 'x';", "\n">>
               \o Statement(<<"UserList">>) \o <<"\n", "</script", ">">>

\* region is import declarations, each followed by a line end, after at most
\* one leading line end
ImportLines(region) ==
    LET lines == IF region # <<>> /\ region[1] = "\n" THEN Tail(region) ELSE region
    IN /\ Len(lines) >= 2
       /\ Len(lines) % 2 = 0
       /\ \A i \in 1..Len(lines) :
             lines[i] = IF i % 2 = 1 THEN "import {ref} from 'x';" ELSE "\n"

\* C7, amended: for a file whose first script region holds no marker and
\* consists of import declarations each followed by a line end, and the route
\* name UserList, the patched block is the imports, one blank line, the
\* statement, and \n </script>; the text around the block is kept.
C7_BlankLineAfterImports ==
    ( /\ Patched
      /\ LastKind = "processed"
      /\ ImportLines(RegionOf(Before))
      /\ LastRoute.name = <<"UserList">> )
    => After = PrefixOf(Before)
               \o <<"<script">> \o AttrsOf(Before) \o <<">", "\n">>
               \o Trim(RegionOf(Before))
               \o <<"\n", "\n">> \o Statement(<<"UserList">>)
               \o <<"\n", "</script", ">">>
               \o SuffixOf(Before)

\* the scenario's component has been patched for the route UserList
C7_Witness ==
    /\ Patched
    /\ Before = <<"<script", ">", "\n", "import {ref} from 'x';", "\n", "</script", ">">>
    /\ LastRoute.name = <<"UserList">>
    /\ After = <<"<script", ">", "\n", "import {ref} from 'x';", "\n", "\n">>
               \o Statement(<<"UserList">>) \o <<"\n", "</script", ">">>

C9_ExistingCallOverwritten ==
    ( /\ Patched
      /\ LastKind = "processed"
      /\ HasCall(RegionOf(Before))
      /\ PlainName(LastRoute.name) )
    => /\ Occurs(RegionOf(After), Statement(LastRoute.name))
       /\ Count(RegionOf(After), "defineOptions") = Count(RegionOf(Before), "defineOptions")

\* C10: when several matched routes with different names resolve to the same
\* component file, after the run the file's first script region holds exactly
\* one defineOptions statement, and it carries the name of the last of them.
\* (Stated for the route names without a dollar sign.)
C10_LastRouteWins ==
    ( /\ InForEach
      /\ pc = "done"
      /\ Len(matchedRoutes) >= 2
      /\ \A k \in 1..Len(matchedRoutes) : PlainName(matchedRoutes[k].name)
      /\ \A k \in 1..Len(matchedRoutes) : console[k].kind \in {"processed", "created"}
      /\ \A k \in 2..Len(matchedRoutes) :
            /\ console[k].path = console[1].path
            /\ matchedRoutes[k].name # matchedRoutes[k - 1].name )
    => LET text == viewsFs[console[1].path].text
       IN /\ HasScriptRegion(text)
          /\ Count(RegionOf(text), "defineOptions") = 1
          /\ Occurs(RegionOf(text), Statement(matchedRoutes[Len(matchedRoutes)].name))

====
